---- MODULE Spec2Model ----
(***************************************************************************)
(* A model of the card-game engine of project/game/src: Card and Deck      *)
(* (card.py), Hand and Bot with its strategies (bot.py) and the round loop *)
(* of Game (game.py).                                                      *)
(***************************************************************************)
EXTENDS Integers, Sequences, FiniteSets, TLC

VARIABLES
    deck,          \* Game._deck._cards: the remaining cards, the last one is drawn next
    bots,          \* Game._bots: the participants in construction order
    max_steps,     \* Game._max_steps
    current_step,  \* Game._current_step
    target_score,  \* Game.target_score
    pc,            \* where play() stands: "idle", "loop", "round", "done"
    idx,           \* position of the for-loop of _play_round in Game._bots
    winner,        \* argument of the _conclude call: a position in bots, or NoBot
    reason,        \* the reason given to _conclude
    concluded,     \* number of _conclude calls made so far
    log,           \* the last line handed to Game._log
    start,         \* the bots as they were when play() was called
    uhand,         \* a stand-alone Hand: its _cards
    ucall          \* the last calculate_score call made on uhand

gameVars == <<deck, bots, max_steps, current_step, target_score, pc, idx,
              winner, reason, concluded, log, start>>
unitVars == <<uhand, ucall>>
vars == <<deck, bots, max_steps, current_step, target_score, pc, idx,
          winner, reason, concluded, log, start, uhand, ucall>>

---------------------------------------------------------------------------
(* Bounds of the model *)

MaxBots == 2        \* longest list of bots handed to Game
MaxSteps == 2       \* largest max_steps handed to Game
MaxHandLen == 4     \* longest stand-alone hand built card by card
MaxBotHand == 3     \* longest hand of a stand-alone bot
MaxShuffleLen == 3  \* most cards left in a deck that is shuffled again
MaxPlays == 2       \* most calls of play() on one Game

---------------------------------------------------------------------------
(* card.py *)

suits == <<"Hearts", "Diamonds", "Clubs", "Spades">>
ranks == 1..13

Card(suit, rank) == [suit |-> suit, rank |-> rank]

Min(a, b) == IF a <= b THEN a ELSE b

value(card) == Min(card.rank, 10)

NumRanks == 13
NumCards == Len(suits) * NumRanks

\* [Card(suit, rank) for suit in self.suits for rank in self.ranks]
NewDeckCards ==
    [i \in 1..NumCards |->
        Card(suits[((i - 1) \div NumRanks) + 1], ((i - 1) % NumRanks) + 1)]

\* The cards the enumerated shuffles bring to the top of the deck.
TopPool ==
    {Card("Spades", 1), Card("Clubs", 1), Card("Clubs", 10), Card("Diamonds", 13)}

Arrangements(S) ==
    {s \in [1..Cardinality(S) -> S] : \A i, j \in 1..Cardinality(S) : s[i] = s[j] => i = j}

\* random.shuffle(self._cards): any permutation of the 52 cards can come out.
\* The model enumerates those that keep the construction order except for
\* the cards of TopPool, which end up on top in every possible order.
Shuffles ==
    LET rest == SelectSeq(NewDeckCards, LAMBDA c : c \notin TopPool)
    IN  {rest \o top : top \in Arrangements(TopPool)}

\* The number of cards a caller has drawn from the deck of the game before it
\* calls play(): none, or all but the last two.
DrawnBefore == {0, NumCards - 2}

\* Deck.draw: self._cards.pop() if self._cards else None
NoCard == [suit |-> "None", rank |-> 0]
draw_card(cards) == IF cards = <<>> THEN NoCard ELSE cards[Len(cards)]

\* Mutant: the card at the other end of the list is removed
draw_rest_bottom(cards) == IF cards = <<>> THEN cards ELSE Tail(cards)

\* Mutant: the drawn card stays in the deck
draw_rest_keep(cards) == cards

draw_rest(cards) == IF cards = <<>> THEN cards ELSE SubSeq(cards, 1, Len(cards) - 1)

---------------------------------------------------------------------------
(* bot.py: Hand *)

RECURSIVE SumValues(_)
SumValues(cards) ==
    IF cards = <<>> THEN 0 ELSE value(Head(cards)) + SumValues(Tail(cards))

NumAces(cards) == Len(SelectSeq(cards, LAMBDA c : c.rank = 1))

AcePromotion == 10

\* Mutant: the promotion test is strict (score < target_score - 10)
RECURSIVE PromoteAcesStrict(_, _, _)
PromoteAcesStrict(score, aces, target) ==
    IF aces # 0 /\ score < target - AcePromotion
    THEN PromoteAcesStrict(score + AcePromotion, aces - 1, target)
    ELSE score

\* Mutant: an Ace is promoted whenever the score is still within the target
RECURSIVE PromoteAcesEager(_, _, _)
PromoteAcesEager(score, aces, target) ==
    IF aces # 0 /\ score <= target
    THEN PromoteAcesEager(score + AcePromotion, aces - 1, target)
    ELSE score

\* while aces and score <= target_score - 10: score += 10; aces -= 1
RECURSIVE PromoteAces(_, _, _)
PromoteAces(score, aces, target) ==
    IF aces # 0 /\ score <= target - AcePromotion
    THEN PromoteAces(score + AcePromotion, aces - 1, target)
    ELSE score

calculate_score(cards, target) ==
    PromoteAces(SumValues(cards), NumAces(cards), target)

---------------------------------------------------------------------------
(* bot.py: Bot and its strategies *)

Strategies == {"conservative", "aggressive", "mixed", "balanced", "intuitive", "none"}

InitialBalance == 1000
DefaultTarget == 21      \* the default of decide's target_score parameter
DefaultThreshold == 17   \* Bot.decide: score < 17
ConservativeDelta == 5
AggressiveDelta == 2
BalancedDelta == 4
IntuitiveOneCard == 15
IntuitiveTwoCards == 17

\* Mutant: the threshold itself still hits (score <= target_score - delta)
build_inclusive(delta, cards, target) == calculate_score(cards, target) <= target - delta

\* BotMeta._build(delta)
build(delta, cards, target) == calculate_score(cards, target) < target - delta

\* Mutant: the two-card rule also covers longer hands
intuitive_decide_from_two(cards, target) ==
    LET score == calculate_score(cards, target)
        total_cards == Len(cards)
    IN  \/ total_cards < 2 /\ score < IntuitiveOneCard
        \/ total_cards >= 2 /\ score < IntuitiveTwoCards

\* IntuitiveBot.decide
intuitive_decide(cards, target) ==
    LET score == calculate_score(cards, target)
        total_cards == Len(cards)
    IN  \/ total_cards < 2 /\ score < IntuitiveOneCard
        \/ total_cards = 2 /\ score < IntuitiveTwoCards

\* bot.decide(target_score), by the strategy tag of the bot's class
decide(bot, target) ==
    CASE bot.strategy = "conservative" -> build(ConservativeDelta, bot.hand, target)
      [] bot.strategy = "aggressive"   -> build(AggressiveDelta, bot.hand, target)
      [] bot.strategy = "balanced"     -> build(BalancedDelta, bot.hand, target)
      [] bot.strategy = "mixed"        -> calculate_score(bot.hand, target) % 2 = 0
      [] bot.strategy = "intuitive"    -> intuitive_decide(bot.hand, target)
      [] OTHER                         -> calculate_score(bot.hand, target) < DefaultThreshold

\* Mutant: the balance is not looked at
bet_accepted_any(balance, amount) == amount >= 0

\* Mutant: a bet of the whole balance is refused
bet_accepted_below(balance, amount) == amount >= 0 /\ amount < balance

\* Bot.place_bet: TRUE iff the amount is accepted
bet_accepted(balance, amount) == amount >= 0 /\ amount <= balance

\* Bot.__init__(name, bet_amount), for an accepted bet
NewBot(name, strategy, bet_amount) ==
    [name |-> name, strategy |-> strategy, balance |-> InitialBalance,
     current_bet |-> bet_amount, is_active |-> TRUE, hand |-> <<>>]

---------------------------------------------------------------------------
(* game.py: construction *)

NoBot == 0          \* winner = None
NoTarget == -1      \* target_score = None (the parameter's default)
ClassTarget == 21   \* GameMeta: attrs.setdefault("target_score", 21)

\* Mutant: only a negative max_steps is refused
steps_accepted_zero(steps) == ~(steps < 0)

\* Game.__init__: max_steps <= 0 raises ValueError
steps_accepted(steps) == ~(steps <= 0)

\* Game.__init__: self.target_score = target_score or type(self).target_score
init_target(arg) == IF arg = NoTarget \/ arg = 0 THEN ClassTarget ELSE arg

\* What the callers of the model hand to Bot() and Game()
\* The bets of examples/main.py, by position in the list of bots
BetPlan == <<100, 200, 100>>
bet_amount(i) == BetPlan[((i - 1) % Len(BetPlan)) + 1]
\* None, 0 and the custom target of the tests
TargetArgs == {NoTarget, 0, 15}
\* A bot comes with an empty hand, or with the two cards the tests deal it
DealtHands == {<<>>, <<Card("Hearts", 10), Card("Diamonds", 5)>>}

BotLists ==
    UNION {
        {[i \in 1..n |-> [NewBot(i, st[i], bet_amount(i)) EXCEPT !.hand = hd[i]]] :
            st \in [1..n -> Strategies], hd \in [1..n -> DealtHands]}
        : n \in 0..MaxBots}

NoLog == [msg |-> "none", bot |-> NoBot]
NoCall == [target |-> NoTarget, score |-> -1]

Init ==
    /\ deck \in {SubSeq(d, 1, Len(d) - k) : d \in Shuffles, k \in DrawnBefore}
    /\ bots \in BotLists
    /\ \A i \in 1..Len(bots) : bet_accepted(InitialBalance, bots[i].current_bet)
    /\ max_steps \in {m \in 1..MaxSteps : steps_accepted(m)}
    /\ current_step = 0
    /\ target_score \in {init_target(a) : a \in TargetArgs}
    /\ pc = "idle"
    /\ idx = 0
    /\ winner = NoBot
    /\ reason = "none"
    /\ concluded = 0
    /\ log = NoLog
    /\ start = bots
    /\ uhand = <<>>
    /\ ucall = NoCall

---------------------------------------------------------------------------
(* game.py: the round loop *)

score_of(bot) == calculate_score(bot.hand, target_score)

RECURSIVE SumOtherBets(_, _, _)
\* sum(b.current_bet for b in self._bots if b is not winner), from position i on
SumOtherBets(bs, w, i) ==
    IF i > Len(bs) THEN 0
    ELSE (IF i # w THEN bs[i].current_bet ELSE 0) + SumOtherBets(bs, w, i + 1)

\* Mutant: the winner is paid but the others keep their balances
distribute_pot_free(bs, w) ==
    LET total_bet == SumOtherBets(bs, w, 1)
    IN  [i \in 1..Len(bs) |->
            IF i = w
            THEN [bs[i] EXCEPT !.balance = bs[i].balance + total_bet,
                               !.current_bet = 0]
            ELSE [bs[i] EXCEPT !.current_bet = 0]]

\* Mutant: the pot also holds the winner's own bet
distribute_pot_all(bs, w) ==
    LET total_bet == SumOtherBets(bs, NoBot, 1)
    IN  [i \in 1..Len(bs) |->
            IF i = w
            THEN [bs[i] EXCEPT !.balance = bs[i].balance + total_bet,
                               !.current_bet = 0]
            ELSE [bs[i] EXCEPT !.balance = bs[i].balance - bs[i].current_bet,
                               !.current_bet = 0]]

\* Game._distribute_pot(winner): the bots afterwards
distribute_pot(bs, w) ==
    LET total_bet == SumOtherBets(bs, w, 1)
    IN  [i \in 1..Len(bs) |->
            IF i = w
            THEN [bs[i] EXCEPT !.balance = bs[i].balance + total_bet,
                               !.current_bet = 0]
            ELSE [bs[i] EXCEPT !.balance = bs[i].balance - bs[i].current_bet,
                               !.current_bet = 0]]

\* Mutant: without a winner every bot still pays its bet
conclude_charging(w, why) ==
    /\ bots' = distribute_pot(bots, w)
    /\ winner' = w
    /\ reason' = why
    /\ concluded' = concluded + 1
    /\ log' = IF w = NoBot THEN [msg |-> "no winner", bot |-> NoBot]
              ELSE [msg |-> "wins", bot |-> w]

\* Game._conclude(winner, reason=...)
conclude(w, why) ==
    /\ bots' = IF w = NoBot THEN bots ELSE distribute_pot(bots, w)
    /\ winner' = w
    /\ reason' = why
    /\ concluded' = concluded + 1
    /\ log' = IF w = NoBot THEN [msg |-> "no winner", bot |-> NoBot]
              ELSE [msg |-> "wins", bot |-> w]

\* Mutant: among equal highest scores the last bot wins
determine_winner_last(bs, target) ==
    LET valid == {i \in 1..Len(bs) : calculate_score(bs[i].hand, target) <= target}
        perfect == {i \in valid : calculate_score(bs[i].hand, target) = target}
        first(S) == CHOOSE i \in S : \A j \in S : i <= j
        last(S) == CHOOSE i \in S : \A j \in S : j <= i
        best == {i \in valid : \A j \in valid :
                    calculate_score(bs[j].hand, target) <= calculate_score(bs[i].hand, target)}
    IN  IF valid = {} THEN NoBot
        ELSE IF perfect # {} THEN first(perfect)
        ELSE last(best)

\* Game._determine_winner
determine_winner(bs, target) ==
    LET valid == {i \in 1..Len(bs) : calculate_score(bs[i].hand, target) <= target}
        perfect == {i \in valid : calculate_score(bs[i].hand, target) = target}
        first(S) == CHOOSE i \in S : \A j \in S : i <= j
        best == {i \in valid : \A j \in valid :
                    calculate_score(bs[j].hand, target) <= calculate_score(bs[i].hand, target)}
    IN  IF valid = {} THEN NoBot
        ELSE IF perfect # {} THEN first(perfect)
        ELSE first(best)

\* Game.play(): enters _rounds, which logs the initial state
Play ==
    /\ pc = "idle"
    /\ pc' = "loop"
    /\ start' = bots
    /\ log' = [msg |-> "initial state", bot |-> NoBot]
    /\ UNCHANGED <<deck, bots, max_steps, current_step, target_score, idx,
                   winner, reason, concluded>>
    /\ UNCHANGED unitVars

\* The test of the while loop of _rounds: another round, or the score heuristic
LoopTest ==
    /\ pc = "loop"
    /\ IF current_step < max_steps
       THEN /\ pc' = "round"
            /\ idx' = 1
            /\ log' = [msg |-> "round", bot |-> NoBot]
            /\ UNCHANGED <<bots, winner, reason, concluded>>
       ELSE /\ conclude(determine_winner(bots, target_score), "none")
            /\ pc' = "done"
            /\ UNCHANGED idx
    /\ UNCHANGED <<deck, max_steps, current_step, target_score, start>>
    /\ UNCHANGED unitVars

\* bot.decide() as Game._play_round calls it: without an argument
round_decide(bot) == decide(bot, DefaultTarget)

\* Mutant: a bot exactly at the target is still asked to decide
turn_kind_above(bot, target, cards) ==
    IF ~bot.is_active THEN "skip"
    ELSE IF calculate_score(bot.hand, target) > target THEN "out"
    ELSE IF round_decide(bot)
         THEN (IF draw_card(cards) = NoCard THEN "empty" ELSE "draws")
    ELSE "stays"

\* What the body of the for-loop of _play_round does with a bot: it skips an
\* inactive bot ("skip"), takes a bot at or above the target out ("out"),
\* lets it draw ("draws"), finds the deck empty ("empty"), or lets it stay
turn_kind(bot, target, cards) ==
    IF ~bot.is_active THEN "skip"
    ELSE IF calculate_score(bot.hand, target) >= target THEN "out"
    ELSE IF round_decide(bot)
         THEN (IF draw_card(cards) = NoCard THEN "empty" ELSE "draws")
    ELSE "stays"

\* Mutant: a bot that stays is taken out of the game, too
bot_after_stay_out(bot, kind, card) ==
    CASE kind = "out"   -> [bot EXCEPT !.is_active = FALSE]
      [] kind = "stays" -> [bot EXCEPT !.is_active = FALSE]
      [] kind = "draws" -> [bot EXCEPT !.hand = Append(@, card)]
      [] OTHER          -> bot

\* Mutant: a bot that is passed over is back in the game
bot_after_skip_rejoins(bot, kind, card) ==
    CASE kind = "out"   -> [bot EXCEPT !.is_active = FALSE]
      [] kind = "skip"  -> [bot EXCEPT !.is_active = TRUE]
      [] kind = "draws" -> [bot EXCEPT !.hand = Append(@, card)]
      [] OTHER          -> bot

\* Mutant: a bot that stays gives up its bet
bot_after_stay_forfeits(bot, kind, card) ==
    CASE kind = "out"   -> [bot EXCEPT !.is_active = FALSE]
      [] kind = "stays" -> [bot EXCEPT !.current_bet = 0]
      [] kind = "draws" -> [bot EXCEPT !.hand = Append(@, card)]
      [] OTHER          -> bot

\* Mutant: the drawn card is put in front of the hand
bot_after_front(bot, kind, card) ==
    CASE kind = "out"   -> [bot EXCEPT !.is_active = FALSE]
      [] kind = "draws" -> [bot EXCEPT !.hand = <<card>> \o @]
      [] OTHER          -> bot

\* The bot after its turn: _safe_set(bot, "is_active", False), or
\* bot.hand.add_card(card), or no change
bot_after(bot, kind, card) ==
    CASE kind = "out"   -> [bot EXCEPT !.is_active = FALSE]
      [] kind = "draws" -> [bot EXCEPT !.hand = Append(@, card)]
      [] OTHER          -> bot

\* The line the turn logs
turn_log(bot, kind, target, i) ==
    CASE kind = "skip"  -> log
      [] kind = "out"   -> [msg |-> IF calculate_score(bot.hand, target) > target
                                    THEN "stays (bust)" ELSE "stays (stay)",
                            bot |-> i]
      [] kind = "empty" -> [msg |-> "deck is empty", bot |-> i]
      [] OTHER          -> [msg |-> kind, bot |-> i]

\* Mutant: the for-loop goes through the bots from the last to the first
PlayTurn_backwards ==
    /\ pc = "round"
    /\ idx <= Len(bots)
    /\ LET pos == Len(bots) + 1 - idx
           bot == bots[pos]
           kind == turn_kind(bot, target_score, deck)
       IN  /\ bots' = [bots EXCEPT ![pos] = bot_after(bot, kind, draw_card(deck))]
           /\ deck' = IF kind = "draws" THEN draw_rest(deck) ELSE deck
           /\ log' = turn_log(bot, kind, target_score, pos)
           /\ idx' = IF kind = "empty" THEN Len(bots) + 1 ELSE idx + 1
    /\ UNCHANGED <<max_steps, current_step, target_score, pc, winner, reason,
                   concluded, start>>
    /\ UNCHANGED unitVars

\* Mutant: an empty deck does not break the loop, the next bot has its turn
PlayTurn_no_break ==
    /\ pc = "round"
    /\ idx <= Len(bots)
    /\ LET bot == bots[idx]
           kind == turn_kind(bot, target_score, deck)
       IN  /\ bots' = [bots EXCEPT ![idx] = bot_after(bot, kind, draw_card(deck))]
           /\ deck' = IF kind = "draws" THEN draw_rest(deck) ELSE deck
           /\ log' = turn_log(bot, kind, target_score, idx)
           /\ idx' = idx + 1
    /\ UNCHANGED <<max_steps, current_step, target_score, pc, winner, reason,
                   concluded, start>>
    /\ UNCHANGED unitVars

\* One pass of the for-loop of _play_round: the turn of the bot at idx;
\* an empty deck breaks the loop
PlayTurn ==
    /\ pc = "round"
    /\ idx <= Len(bots)
    /\ LET bot == bots[idx]
           kind == turn_kind(bot, target_score, deck)
       IN  /\ bots' = [bots EXCEPT ![idx] = bot_after(bot, kind, draw_card(deck))]
           /\ deck' = IF kind = "draws" THEN draw_rest(deck) ELSE deck
           /\ log' = turn_log(bot, kind, target_score, idx)
           /\ idx' = IF kind = "empty" THEN Len(bots) + 1 ELSE idx + 1
    /\ UNCHANGED <<max_steps, current_step, target_score, pc, winner, reason,
                   concluded, start>>
    /\ UNCHANGED unitVars

\* active_bots = [b for b in self._bots if b.is_active]
active_bots(bs) == {i \in 1..Len(bs) : bs[i].is_active}

\* Mutant: of the active bots at the target, the last one
perfect_bot_last(bs, target) ==
    LET hit == {i \in active_bots(bs) : calculate_score(bs[i].hand, target) = target}
    IN  IF hit = {} THEN NoBot ELSE CHOOSE i \in hit : \A j \in hit : j <= i

\* perfect = next((b for b in active_bots if score == target), None)
perfect_bot(bs, target) ==
    LET hit == {i \in active_bots(bs) : calculate_score(bs[i].hand, target) = target}
    IN  IF hit = {} THEN NoBot ELSE CHOOSE i \in hit : \A j \in hit : i <= j

NoOutcome == [bot |-> NoBot, why |-> "continue"]

\* Mutant: there is no exact-target check after a round
round_outcome_no_target(bs, target) ==
    IF Cardinality(active_bots(bs)) = 1
    THEN [bot |-> CHOOSE i \in active_bots(bs) : TRUE, why |-> "last remaining bot"]
    ELSE NoOutcome

\* Mutant: the exact-target check comes before the single-survivor check
round_outcome_target_first(bs, target) ==
    IF perfect_bot(bs, target) # NoBot
    THEN [bot |-> perfect_bot(bs, target), why |-> "reached target"]
    ELSE IF Cardinality(active_bots(bs)) = 1
    THEN [bot |-> CHOOSE i \in active_bots(bs) : TRUE, why |-> "last remaining bot"]
    ELSE NoOutcome

\* The termination checks of _rounds: A. only one bot left alive,
\* B. someone hit the exact target
round_outcome(bs, target) ==
    IF Cardinality(active_bots(bs)) = 1
    THEN [bot |-> CHOOSE i \in active_bots(bs) : TRUE, why |-> "last remaining bot"]
    ELSE IF perfect_bot(bs, target) # NoBot
    THEN [bot |-> perfect_bot(bs, target), why |-> "reached target"]
    ELSE NoOutcome

\* Mutant: a round counts for two steps
next_step_two(step) == step + 2

\* Mutant: the step counter is not advanced
next_step_stuck(step) == step

\* self._current_step += 1
next_step(step) == step + 1

\* The end of _play_round and what follows it in the while-loop of _rounds:
\* the step counter and the termination checks
EndRound ==
    /\ pc = "round"
    /\ idx > Len(bots)
    /\ current_step' = next_step(current_step)
    /\ LET outcome == round_outcome(bots, target_score)
       IN  IF outcome # NoOutcome
           THEN /\ conclude(outcome.bot, outcome.why)
                /\ pc' = "done"
           ELSE /\ pc' = "loop"
                /\ log' = [msg |-> "state", bot |-> NoBot]
                /\ UNCHANGED <<bots, winner, reason, concluded>>
    /\ UNCHANGED <<deck, max_steps, target_score, idx, start>>
    /\ UNCHANGED unitVars

Next == Play \/ LoopTest \/ PlayTurn \/ EndRound

Spec == Init /\ [][Next]_vars

---------------------------------------------------------------------------
(* bot.py: a Hand on its own, built and scored by a caller *)

\* The cards a caller adds to the hand, and the targets it scores it against
HandCards ==
    {Card("Clubs", 1), Card("Spades", 1), Card("Spades", 2), Card("Diamonds", 5),
     Card("Hearts", 10), Card("Hearts", 13)}
ScoreTargets == {0, 11, 15, 21, 25, 32}

InitHand ==
    /\ deck = <<>>
    /\ bots = <<>>
    /\ max_steps = 1
    /\ current_step = 0
    /\ target_score = ClassTarget
    /\ pc = "no game"
    /\ idx = 0
    /\ winner = NoBot
    /\ reason = "none"
    /\ concluded = 0
    /\ log = NoLog
    /\ start = <<>>
    /\ uhand = <<>>
    /\ ucall = NoCall

\* Hand.add_card(card)
add_card ==
    /\ Len(uhand) < MaxHandLen
    /\ \E card \in HandCards : uhand' = Append(uhand, card)
    /\ ucall' = NoCall
    /\ UNCHANGED gameVars

\* Hand.reset()
reset ==
    /\ uhand # <<>>
    /\ uhand' = <<>>
    /\ ucall' = NoCall
    /\ UNCHANGED gameVars

\* Hand.calculate_score(target_score): the call and what it returns
score_hand ==
    /\ \E target \in ScoreTargets :
           ucall' = [target |-> target, score |-> calculate_score(uhand, target)]
    /\ UNCHANGED uhand
    /\ UNCHANGED gameVars

NextHand == add_card \/ reset \/ score_hand

SpecHand == InitHand /\ [][NextHand]_vars

---------------------------------------------------------------------------
(* bot.py: a Bot on its own, constructed and called by a caller; bots holds *)
(* it once it is constructed, ucall the last call made and its result, and *)
(* start the bot as it was before that call                                *)

\* The cards a caller adds to the bot's hand, the targets it hands to decide
\* and the amounts it bets
BotCards ==
    {Card("Clubs", 1), Card("Diamonds", 5), Card("Diamonds", 7), Card("Hearts", 10)}
DecideTargets == {15, 21}
BetAmounts == {-100, 0, 500, 1000, 1100}

NoBotCall == [op |-> "none", arg |-> 0, result |-> "none"]
BotCall(op, arg, result) == [op |-> op, arg |-> arg, result |-> result]

InitBot ==
    /\ deck = <<>>
    /\ bots = <<>>
    /\ max_steps = 1
    /\ current_step = 0
    /\ target_score = ClassTarget
    /\ pc = "no game"
    /\ idx = 0
    /\ winner = NoBot
    /\ reason = "none"
    /\ concluded = 0
    /\ log = NoLog
    /\ start = <<>>
    /\ uhand = <<>>
    /\ ucall = NoBotCall

botFrame == <<deck, max_steps, current_step, target_score, pc, idx, winner,
              reason, concluded, log, uhand>>

\* Bot(name, bet_amount) of a strategy class: Bet(bet_amount) and
\* place_bet(bet_amount) raise ValueError for a bad amount, and no bot is made
new_bot ==
    /\ bots = <<>>
    /\ \E strategy \in Strategies, amount \in BetAmounts :
           IF bet_accepted(InitialBalance, amount)
           THEN /\ bots' = <<NewBot(1, strategy, amount)>>
                /\ ucall' = BotCall("Bot", amount, "ok")
           ELSE /\ bots' = bots
                /\ ucall' = BotCall("Bot", amount, "ValueError")
    /\ start' = bots
    /\ UNCHANGED botFrame

\* bot.hand.add_card(card)
bot_add_card ==
    /\ bots # <<>>
    /\ Len(bots[1].hand) < MaxBotHand
    /\ \E card \in BotCards :
           /\ bots' = [bots EXCEPT ![1].hand = Append(@, card)]
           /\ ucall' = BotCall("add_card", card.rank, "ok")
    /\ start' = bots
    /\ UNCHANGED botFrame

hit_or_stay(answer) == IF answer THEN "hit" ELSE "stay"

\* bot.decide(target_score): reads the hand, returns the answer
bot_decide ==
    /\ bots # <<>>
    /\ \E target \in DecideTargets :
           ucall' = BotCall("decide", target, hit_or_stay(decide(bots[1], target)))
    /\ UNCHANGED bots
    /\ start' = bots
    /\ UNCHANGED botFrame

\* Bot.place_bet(amount)
place_bet ==
    /\ bots # <<>>
    /\ \E amount \in BetAmounts :
           IF bet_accepted(bots[1].balance, amount)
           THEN /\ bots' = [bots EXCEPT ![1].current_bet = amount]
                /\ ucall' = BotCall("place_bet", amount, "ok")
           ELSE /\ bots' = bots
                /\ ucall' = BotCall("place_bet", amount, "ValueError")
    /\ start' = bots
    /\ UNCHANGED botFrame

\* Mutant: the hand is cleared but the bot is not reactivated
reset_bot_hand_only(bot) == [bot EXCEPT !.hand = <<>>]

\* The bot after reset_hand(): self.hand.reset(); self.is_active = True
reset_bot(bot) == [bot EXCEPT !.hand = <<>>, !.is_active = TRUE]

\* Bot.reset_hand()
reset_hand ==
    /\ bots # <<>>
    /\ bots' = [bots EXCEPT ![1] = reset_bot(@)]
    /\ ucall' = BotCall("reset_hand", 0, "ok")
    /\ start' = bots
    /\ UNCHANGED botFrame

\* What a game does to the bot in _play_round when its score is at or above
\* the game's target: _safe_set(bot, "is_active", False)
game_takes_out ==
    /\ bots # <<>>
    /\ bots[1].is_active
    /\ \E target \in DecideTargets : calculate_score(bots[1].hand, target) >= target
    /\ bots' = [bots EXCEPT ![1].is_active = FALSE]
    /\ ucall' = BotCall("game", 0, "out")
    /\ start' = bots
    /\ UNCHANGED botFrame

\* What a game does to a bot that lost in _distribute_pot:
\* balance - current_bet, then current_bet = 0
game_settles ==
    /\ bots # <<>>
    /\ bots[1].current_bet > 0
    /\ bots' = [bots EXCEPT ![1].balance = @ - bots[1].current_bet,
                             ![1].current_bet = 0]
    /\ ucall' = BotCall("game", 0, "settled")
    /\ start' = bots
    /\ UNCHANGED botFrame

NextBot ==
    \/ new_bot
    \/ bot_add_card
    \/ bot_decide
    \/ place_bet
    \/ reset_hand
    \/ game_takes_out
    \/ game_settles

SpecBot == InitBot /\ [][NextBot]_vars

---------------------------------------------------------------------------
(* game.py: games at the edges of their inputs: bots that bet anything up  *)
(* to their whole balance, and a deck a caller has left a single card in   *)

EdgeStrategies == {"aggressive", "mixed"}
\* The number of cards the caller drew before play(): none, or all but one
EdgeDrawn == {0, NumCards - 1}
\* The max_steps of these games: long enough for a bot with an empty hand to
\* draw twice and have a turn after that
EdgeSteps == 1..(MaxSteps + 1)

\* The lists of bots a caller can construct with the amounts of BetAmounts:
\* Bot(name, bet_amount) raises ValueError for an amount that is not accepted
EdgeBotLists ==
    UNION {
        {bs \in {[i \in 1..n |-> NewBot(i, st[i], bt[i])] :
                    st \in [1..n -> EdgeStrategies], bt \in [1..n -> BetAmounts]} :
            \A i \in 1..n : bet_accepted(InitialBalance, bs[i].current_bet)}
        : n \in 0..MaxBots}

InitEdge ==
    /\ deck \in {SubSeq(d, 1, Len(d) - k) : d \in Shuffles, k \in EdgeDrawn}
    /\ bots \in EdgeBotLists
    /\ max_steps \in {m \in EdgeSteps : steps_accepted(m)}
    /\ current_step = 0
    /\ target_score \in {init_target(a) : a \in TargetArgs}
    /\ pc = "idle"
    /\ idx = 0
    /\ winner = NoBot
    /\ reason = "none"
    /\ concluded = 0
    /\ log = NoLog
    /\ start = bots
    /\ uhand = <<>>
    /\ ucall = NoCall

SpecEdge == InitEdge /\ [][Next]_vars

---------------------------------------------------------------------------
(* game.py: play() called again on a Game whose play() has returned        *)

\* Game.play() after play() has returned: _rounds starts over, logs the
\* initial state and goes to the test of its while loop with the step
\* counter, the bots and the deck as the last call left them
PlayAgain ==
    /\ pc = "done"
    /\ concluded < MaxPlays
    /\ pc' = "loop"
    /\ log' = [msg |-> "initial state", bot |-> NoBot]
    /\ UNCHANGED <<deck, bots, max_steps, current_step, target_score, idx,
                   winner, reason, concluded, start>>
    /\ UNCHANGED unitVars

NextAgain == Next \/ PlayAgain

SpecAgain == InitEdge /\ [][NextAgain]_vars

---------------------------------------------------------------------------
(* card.py: a Deck on its own, drawn from and shuffled by a caller; uhand  *)
(* holds the cards drawn so far, ucall the last call and what it returned  *)

NoDeckCall == [op |-> "none", card |-> NoCard]

InitDeck ==
    /\ deck \in Shuffles
    /\ bots = <<>>
    /\ max_steps = 1
    /\ current_step = 0
    /\ target_score = ClassTarget
    /\ pc = "no game"
    /\ idx = 0
    /\ winner = NoBot
    /\ reason = "none"
    /\ concluded = 0
    /\ log = NoLog
    /\ start = <<>>
    /\ uhand = <<>>
    /\ ucall = NoDeckCall

deckFrame == <<bots, max_steps, current_step, target_score, pc, idx, winner,
               reason, concluded, log, start>>

\* Deck.draw(): the top card, or None from an empty deck
draw ==
    /\ ucall' = [op |-> "draw", card |-> draw_card(deck)]
    /\ deck' = draw_rest(deck)
    /\ uhand' = IF draw_card(deck) = NoCard THEN uhand ELSE Append(uhand, draw_card(deck))
    /\ UNCHANGED deckFrame

\* Mutant: a shuffle may repeat a card and lose another
Reorderings_with_repeats(cards) ==
    {[i \in 1..Len(cards) |-> cards[p[i]]] : p \in [1..Len(cards) -> 1..Len(cards)]}

\* The orders random.shuffle can leave a list in: all of them
Reorderings(cards) ==
    {[i \in 1..Len(cards) |-> cards[p[i]]] : p \in Arrangements(1..Len(cards))}

\* Deck.shuffle(): the remaining cards in any order
shuffle ==
    /\ Len(deck) <= MaxShuffleLen
    /\ deck' \in Reorderings(deck)
    /\ ucall' = [op |-> "shuffle", card |-> NoCard]
    /\ UNCHANGED uhand
    /\ UNCHANGED deckFrame

NextDeck == draw \/ shuffle

SpecDeck == InitDeck /\ [][NextDeck]_vars

---------------------------------------------------------------------------
(* game.py: the construction of a Game by a caller; ucall holds the        *)
(* arguments of the last Game(...) call and its outcome                    *)

\* The max_steps and target_score arguments a caller hands to Game(...)
StepArgs == -1..MaxSteps
NewTargetArgs == {NoTarget, 0, 15, 21, 30}

NoGameCall == [op |-> "none", max_steps |-> 0, target_score |-> NoTarget, result |-> "none"]
GameCall(steps, target, result) ==
    [op |-> "Game", max_steps |-> steps, target_score |-> target, result |-> result]

InitNew ==
    /\ deck = <<>>
    /\ bots = <<>>
    /\ max_steps = 0
    /\ current_step = 0
    /\ target_score = ClassTarget
    /\ pc = "no game"
    /\ idx = 0
    /\ winner = NoBot
    /\ reason = "none"
    /\ concluded = 0
    /\ log = NoLog
    /\ start = <<>>
    /\ uhand = <<>>
    /\ ucall = NoGameCall

\* Game(bots, max_steps, target_score=...): Game.__init__ raises ValueError
\* before it sets anything, or sets up the deck, the bots, the step counter
\* and the target
new_game ==
    /\ pc = "no game"
    /\ \E bs \in BotLists, steps \in StepArgs, target \in NewTargetArgs :
           IF steps_accepted(steps)
           THEN /\ deck' \in Shuffles
                /\ bots' = bs
                /\ max_steps' = steps
                /\ current_step' = 0
                /\ target_score' = init_target(target)
                /\ pc' = "idle"
                /\ start' = bs
                /\ ucall' = GameCall(steps, target, "ok")
           ELSE /\ pc' = "rejected"
                /\ ucall' = GameCall(steps, target, "ValueError")
                /\ UNCHANGED <<deck, bots, max_steps, current_step, target_score, start>>
    /\ UNCHANGED <<idx, winner, reason, concluded, log, uhand>>

NextNew == new_game

SpecNew == InitNew /\ [][NextNew]_vars

---------------------------------------------------------------------------
(* Properties of settlement *)

Positions == 1..Len(bots)

\* The round's for-loop has run to its end: the termination checks come next
AfterRound == pc = "round" /\ idx > Len(bots)

RECURSIVE BetsOf(_, _)
BetsOf(bs, S) ==
    IF S = {} THEN 0
    ELSE LET i == CHOOSE j \in S : TRUE
         IN  bs[i].current_bet + BetsOf(bs, S \ {i})

\* C1: when the game has concluded with a winner W, W's balance is its
\* balance before play() plus the bets of all other bots, every other bot's
\* balance is its balance before play() minus its own bet, and every bot's
\* current_bet is 0.
C1_SettlementWithWinner ==
    (pc = "done" /\ winner # NoBot) =>
        /\ bots[winner].balance =
               start[winner].balance + BetsOf(start, Positions \ {winner})
        /\ \A i \in Positions \ {winner} :
               bots[i].balance = start[i].balance - start[i].current_bet
        /\ \A i \in Positions : bots[i].current_bet = 0

\* A game of two bots with a bust loser has been settled: the winner holds
\* the loser's bet.
C1_Witness ==
    /\ pc = "done"
    /\ winner # NoBot
    /\ Len(bots) = 2
    /\ \E i \in Positions \ {winner} :
           /\ score_of(bots[i]) > target_score
           /\ bots[winner].balance = InitialBalance + start[i].current_bet
           /\ bots[i].balance = InitialBalance - start[i].current_bet

\* C2: when the game has concluded without a winner, every bot's balance is
\* its balance before play().
C2_NoWinnerKeepsBalances ==
    (pc = "done" /\ winner = NoBot) =>
        \A i \in Positions : bots[i].balance = start[i].balance

\* Two bots are both bust after the last round: there is no winner.
C2_Witness ==
    /\ pc = "done"
    /\ winner = NoBot
    /\ Len(bots) = 2
    /\ current_step = max_steps
    /\ \A i \in Positions : score_of(bots[i]) > target_score /\ start[i].current_bet > 0

\* C3: when play() has returned, every bot's current_bet is 0, with a
\* winner or without one.
C3_BetsResetAfterPlay ==
    pc = "done" => \A i \in Positions : bots[i].current_bet = 0

---------------------------------------------------------------------------
(* Properties of the termination checks *)

\* C4: after a round with exactly one active bot, the next step concludes the
\* game with that bot as the winner and the reason "last remaining bot", also
\* when that bot's score is the target; once concluded, no round is played.
C4_SingleSurvivor ==
    [][/\ (AfterRound /\ Cardinality(active_bots(bots)) = 1) =>
            /\ pc' = "done"
            /\ winner' \in active_bots(bots)
            /\ reason' = "last remaining bot"
            /\ concluded' = concluded + 1
       /\ pc = "done" => pc' = "done" /\ current_step' = current_step
      ]_vars

\* The game was won by the last remaining bot, whose score is the target.
C4_Witness ==
    /\ pc = "done"
    /\ reason = "last remaining bot"
    /\ Len(bots) = 2
    /\ active_bots(bots) = {winner}
    /\ score_of(bots[winner]) = target_score

\* C5: after a round that leaves no single survivor, if an active bot's score
\* is the target, the next step concludes the game and the winner is the
\* first such bot in the order of the list.
C5_ExactTarget ==
    [][(/\ AfterRound
        /\ Cardinality(active_bots(bots)) # 1
        /\ \E i \in active_bots(bots) : score_of(bots[i]) = target_score) =>
            /\ pc' = "done"
            /\ winner' \in active_bots(bots)
            /\ score_of(bots[winner']) = target_score
            /\ \A j \in active_bots(bots) :
                   score_of(bots[j]) = target_score => winner' <= j
            /\ reason' = "reached target"
            /\ concluded' = concluded + 1
      ]_vars

\* Two active bots reached the target in the same round; the first one won.
C5_Witness ==
    /\ pc = "done"
    /\ reason = "reached target"
    /\ Cardinality({i \in active_bots(bots) : score_of(bots[i]) = target_score}) = 2
    /\ winner = 1

\* C6: the score heuristic is used only after max_steps rounds; then, among
\* the bots whose score is at most the target, the winner is the first one
\* whose score is the target if there is one, else the first of those with
\* the highest score; if every bot is bust there is no winner.
C6_WinnerByHeuristic ==
    (pc = "done" /\ reason = "none") =>
        LET valid == {i \in Positions : score_of(bots[i]) <= target_score}
            exact == {i \in valid : score_of(bots[i]) = target_score}
        IN  /\ current_step = max_steps
            /\ valid = {} => winner = NoBot
            /\ valid # {} => winner \in valid
            /\ exact # {} => winner \in exact /\ \A j \in exact : winner <= j
            /\ (valid # {} /\ exact = {}) =>
                   \A j \in valid :
                       /\ score_of(bots[j]) <= score_of(bots[winner])
                       /\ score_of(bots[j]) = score_of(bots[winner]) => winner <= j

\* The heuristic chose between two bots with the same score below the target.
C6_Witness ==
    /\ pc = "done"
    /\ reason = "none"
    /\ Len(bots) = 2
    /\ winner = 1
    /\ score_of(bots[1]) = score_of(bots[2])
    /\ score_of(bots[1]) < target_score

---------------------------------------------------------------------------
(* Properties of play() as a whole *)

\* An upper bound on the steps play() still has to take: the turns and the
\* end of the current round, then the loop test, the turns and the end of
\* every round left, then the last loop test.
StepsLeft ==
    LET round_steps == Len(bots) + 2
    IN  CASE pc = "idle"  -> max_steps * round_steps + 2
          [] pc = "loop"  -> (max_steps - current_step) * round_steps + 1
          [] pc = "round" -> (Len(bots) + 2 - idx)
                             + (max_steps - current_step - 1) * round_steps + 1
          [] OTHER        -> 0

\* C7: play() terminates after at least one and at most max_steps rounds with
\* exactly one conclusion: until it has returned a step is always possible,
\* every step brings the end nearer, no conclusion is made before the end,
\* and at the end exactly one has been made.
C7_PlayTerminates ==
    /\ [](pc # "done" => ENABLED Next)
    /\ [](StepsLeft >= 0)
    /\ [][StepsLeft' < StepsLeft]_vars
    /\ [](pc # "done" => concluded = 0)
    /\ [](pc = "done" =>
            /\ concluded = 1
            /\ 1 <= current_step
            /\ current_step <= max_steps)

\* play() has returned after the deck ran out under a bot that still wanted
\* a card.
C7_Witness ==
    /\ pc = "done"
    /\ concluded = 1
    /\ current_step = max_steps
    /\ deck = <<>>
    /\ \E i \in Positions :
           turn_kind(bots[i], target_score, deck) = "empty"

---------------------------------------------------------------------------
(* Properties of a turn *)

\* An active bot below the target has its turn
TurnOf(i) ==
    /\ pc = "round"
    /\ idx = i
    /\ i <= Len(bots)
    /\ bots[i].is_active
    /\ score_of(bots[i]) < target_score

\* The delta of a threshold strategy
DeltaOf(strategy) ==
    CASE strategy = "conservative" -> ConservativeDelta
      [] strategy = "aggressive"   -> AggressiveDelta
      [] strategy = "balanced"     -> BalancedDelta

\* C8: in a game with target t an active bot with a threshold strategy and a
\* score s below t draws a card in its turn exactly if s < t - delta, with
\* the target of the game as t (the deck holding a card).
C8_DecisionUsesGameTarget ==
    [][\A i \in Positions :
          (/\ TurnOf(i)
           /\ bots[i].strategy \in {"conservative", "aggressive", "balanced"}
           /\ deck # <<>>) =>
              (Len(bots'[i].hand) = Len(bots[i].hand) + 1
                  <=> score_of(bots[i]) < target_score - DeltaOf(bots[i].strategy))
      ]_vars

---------------------------------------------------------------------------
(* Properties of Hand.calculate_score *)

Max(S) == CHOOSE x \in S : \A y \in S : y <= x

\* The sum of the cards with every Ace counted as 1 and every face card as 10
BaseSum(cards, n) ==
    LET Clip(r) == IF r > 10 THEN 10 ELSE r
        f[i \in 0..n] == IF i = 0 THEN 0 ELSE f[i - 1] + Clip(cards[i].rank)
    IN  f[n]

\* C10: calculate_score(t) is the base sum when that exceeds t, and else the
\* largest base + 10k that is at most t, with k at most the number of Aces.
C10_ScoreClosedForm ==
    ucall # NoCall =>
        LET base == BaseSum(uhand, Len(uhand))
            aces == Cardinality({i \in 1..Len(uhand) : uhand[i].rank = 1})
            t == ucall.target
        IN  ucall.score =
                IF base <= t
                THEN Max({base + 10 * k : k \in {j \in 0..aces : base + 10 * j <= t}})
                ELSE base

\* A hand with two Aces and a face card was scored with exactly one Ace
\* promoted.
C10_Witness ==
    /\ ucall # NoCall
    /\ Cardinality({i \in 1..Len(uhand) : uhand[i].rank = 1}) = 2
    /\ \E i \in 1..Len(uhand) : uhand[i].rank > 10
    /\ ucall.score = BaseSum(uhand, Len(uhand)) + 10
    /\ ucall.score <= ucall.target

\* C11: calculate_score is never negative, and a hand whose sum with every Ace
\* counted as 1 is at most the target scores at most the target: a score above
\* the target is the sum with every Ace counted as 1.
C11_ScoreWithinTarget ==
    ucall # NoCall =>
        LET base == BaseSum(uhand, Len(uhand))
        IN  /\ ucall.score >= 0
            /\ base <= ucall.target => ucall.score <= ucall.target
            /\ ucall.score > ucall.target => ucall.score = base

\* A hand with an Ace was scored within the target although promoting the
\* Ace would have exceeded it.
C11_Witness ==
    /\ ucall # NoCall
    /\ \E i \in 1..Len(uhand) : uhand[i].rank = 1
    /\ ucall.score = BaseSum(uhand, Len(uhand))
    /\ ucall.score <= ucall.target
    /\ ucall.score + 10 > ucall.target

\* The hand 10 + King + 2 was scored 22 against the target 21.
C11_BustWitness ==
    /\ ucall # NoCall
    /\ ucall.target = 21
    /\ ucall.score = 22
    /\ Len(uhand) = 3
    /\ \A i \in 1..Len(uhand) : uhand[i].rank # 1

---------------------------------------------------------------------------
(* Properties of a Bot on its own *)

\* The last call was made on the bot, which exists
Called(op) == ucall.op = op /\ bots # <<>> /\ start # <<>>

\* C12: decide(t) on a hand with score s = calculate_score(t) answers hit
\* exactly if s < t - 5 (conservative), s < t - 2 (aggressive), s < t - 4
\* (balanced), s is even (mixed), s < 17 (no strategy); the call leaves the
\* bot as it was.
C12_DecideByStrategy ==
    Called("decide") =>
        LET t == ucall.arg
            s == calculate_score(start[1].hand, t)
            strategy == start[1].strategy
            hit == ucall.result = "hit"
        IN  /\ ucall.result \in {"hit", "stay"}
            /\ strategy = "conservative" => (hit <=> s < t - 5)
            /\ strategy = "aggressive" => (hit <=> s < t - 2)
            /\ strategy = "balanced" => (hit <=> s < t - 4)
            /\ strategy = "mixed" => (hit <=> s % 2 = 0)
            /\ strategy = "none" => (hit <=> s < 17)
            /\ (strategy = "conservative" /\ t = 21) => (hit <=> s < 16)
            /\ (strategy = "aggressive" /\ t = 21) => (hit <=> s < 19)
            /\ (strategy = "balanced" /\ t = 21) => (hit <=> s < 17)
            /\ bots = start

\* A conservative bot with score 10 was asked with the target 15 and stayed.
C12_Witness ==
    /\ Called("decide")
    /\ bots[1].strategy = "conservative"
    /\ ucall.arg = 15
    /\ calculate_score(bots[1].hand, 15) = 10
    /\ ucall.result = "stay"

\* C13: the intuitive bot's decide answers hit exactly if it holds fewer than
\* two cards and its score is below 15, or it holds exactly two cards and
\* its score is below 17; with more than two cards it stays.
C13_IntuitiveDecision ==
    (Called("decide") /\ start[1].strategy = "intuitive") =>
        LET s == calculate_score(start[1].hand, ucall.arg)
            n == Len(start[1].hand)
        IN  /\ ucall.result = "hit" <=> ((n < 2 /\ s < 15) \/ (n = 2 /\ s < 17))
            /\ n > 2 => ucall.result = "stay"

\* An intuitive bot with three cards and a score below 17 stayed.
C13_Witness ==
    /\ Called("decide")
    /\ bots[1].strategy = "intuitive"
    /\ Len(bots[1].hand) = 3
    /\ calculate_score(bots[1].hand, ucall.arg) < 17
    /\ ucall.result = "stay"

\* C14: place_bet(amount) raises the validation error and changes nothing
\* if amount < 0 or amount > balance; otherwise current_bet becomes amount
\* and nothing else changes, the balance included.
C14_PlaceBet ==
    Called("place_bet") =>
        LET amount == ucall.arg
        IN  IF amount < 0 \/ amount > start[1].balance
            THEN ucall.result = "ValueError" /\ bots = start
            ELSE /\ ucall.result = "ok"
                 /\ bots[1].current_bet = amount
                 /\ bots[1].balance = start[1].balance
                 /\ bots = [start EXCEPT ![1].current_bet = amount]

\* A bot that had lost a bet placed its whole remaining balance.
C14_Witness ==
    /\ Called("place_bet")
    /\ ucall.result = "ok"
    /\ ucall.arg = bots[1].balance
    /\ bots[1].current_bet = bots[1].balance
    /\ bots[1].balance > 0
    /\ bots[1].balance < InitialBalance
    /\ start[1].current_bet # ucall.arg

\* A bet above the balance the bot had left was refused.
C14_RefusedWitness ==
    /\ Called("place_bet")
    /\ ucall.result = "ValueError"
    /\ ucall.arg > 0
    /\ ucall.arg <= InitialBalance
    /\ ucall.arg > bots[1].balance

\* C15: reset_hand() leaves the bot with an empty hand and active, and with
\* the balance and the current_bet it had, whatever its state was.
C15_ResetHand ==
    Called("reset_hand") =>
        /\ bots[1].hand = <<>>
        /\ bots[1].is_active
        /\ bots[1].balance = start[1].balance
        /\ bots[1].current_bet = start[1].current_bet
        /\ bots = [start EXCEPT ![1].hand = <<>>, ![1].is_active = TRUE]

\* An inactive bot with cards, a bet and a balance it had lost from was reset.
C15_Witness ==
    /\ Called("reset_hand")
    /\ ~start[1].is_active
    /\ Len(start[1].hand) >= 2
    /\ start[1].current_bet > 0
    /\ start[1].balance < InitialBalance
    /\ bots[1].is_active
    /\ bots[1].hand = <<>>

---------------------------------------------------------------------------
(* Properties of the construction of a Game *)

\* C16: Game(...) with max_steps <= 0 raises the validation error and makes
\* no game; with max_steps >= 1 it makes a game of that many steps, at step 0.
C16_MaxStepsValidated ==
    ucall.op = "Game" =>
        IF ucall.max_steps <= 0
        THEN /\ ucall.result = "ValueError"
             /\ pc = "rejected"
             /\ deck = <<>>
             /\ max_steps = 0
        ELSE /\ ucall.result = "ok"
             /\ pc = "idle"
             /\ max_steps = ucall.max_steps
             /\ current_step = 0
             /\ Len(deck) = NumCards

\* Game(...) with max_steps = 0 was refused.
C16_Witness ==
    /\ ucall.op = "Game"
    /\ ucall.max_steps = 0
    /\ ucall.result = "ValueError"
    /\ pc = "rejected"

\* Game(...) with max_steps = 1 made a game.
C16_AcceptedWitness ==
    /\ ucall.op = "Game"
    /\ ucall.max_steps = 1
    /\ pc = "idle"
    /\ max_steps = 1

\* C17: a Game made without target_score has the target 21, and a Game made
\* with an explicit target_score has exactly that target, whatever the value.
C17_TargetAsGiven ==
    (ucall.op = "Game" /\ ucall.result = "ok") =>
        target_score = IF ucall.target_score = NoTarget THEN 21 ELSE ucall.target_score

---------------------------------------------------------------------------
(* Properties of a Deck on its own *)

AllCards ==
    {[suit |-> su, rank |-> r] : su \in {"Hearts", "Diamonds", "Clubs", "Spades"}, r \in 1..13}

\* C18: a fresh deck holds 52 cards; every draw from a deck with cards
\* returns a card not drawn before and removes it, so that 52 draws return
\* every suit and rank once; a draw from the empty deck returns None and
\* leaves the deck as it is.
C18_FiftyTwoDistinctThenEmpty ==
    /\ [](/\ Len(deck) + Len(uhand) = 52
          /\ uhand = <<>> => Len(deck) = 52
          /\ \A i, j \in 1..Len(uhand) : uhand[i] = uhand[j] => i = j
          /\ \A i \in 1..Len(uhand) : uhand[i] \in AllCards
          /\ Len(uhand) = 52 => (deck = <<>> /\ {uhand[i] : i \in 1..52} = AllCards))
    /\ [][ucall'.op = "draw" =>
            IF deck = <<>>
            THEN ucall'.card = NoCard /\ deck' = <<>> /\ uhand' = uhand
            ELSE /\ ucall'.card \in AllCards
                 /\ uhand' = Append(uhand, ucall'.card)
                 /\ Len(deck') = Len(deck) - 1
      ]_vars

\* The 53rd draw has returned None.
C18_Witness ==
    /\ deck = <<>>
    /\ Len(uhand) = 52
    /\ ucall.op = "draw"
    /\ ucall.card = NoCard

---------------------------------------------------------------------------
(* Properties of a turn within a round *)

\* C19: when the turn of an active bot comes and its score is at or above
\* the target, the bot becomes inactive and is passed over: its hand and the
\* deck stay as they are, the line logged is the one of a bot taken out
\* (bust above the target, stay at it) and the loop moves on to the next bot.
C19_AtOrAboveTargetSkipped ==
    [][\A i \in Positions :
          (/\ pc = "round" /\ idx = i /\ bots[i].is_active
           /\ score_of(bots[i]) >= target_score) =>
              /\ ~bots'[i].is_active
              /\ bots'[i].hand = bots[i].hand
              /\ deck' = deck
              /\ log' = [msg |-> IF score_of(bots[i]) > target_score
                                  THEN "stays (bust)" ELSE "stays (stay)",
                         bot |-> i]
              /\ idx' = i + 1
              /\ pc' = "round"
      ]_vars

\* A bot exactly at the target was taken out although its decide() would
\* have answered hit and the deck held cards.
C19_Witness ==
    /\ pc = "round"
    /\ log.msg = "stays (stay)"
    /\ ~bots[log.bot].is_active
    /\ score_of(bots[log.bot]) = target_score
    /\ round_decide(bots[log.bot])
    /\ deck # <<>>
    /\ idx = log.bot + 1

\* C20: when an active bot below the target decides to hit and the deck
\* holds a card, the top card leaves the deck and becomes the last card of
\* that bot's hand, and no other bot, nor the game's steps, target or
\* conclusion change; a hand has grown by at most one card per round played.
C20_HitDrawsOneCard ==
    /\ [][\A i \in Positions :
             (TurnOf(i) /\ round_decide(bots[i]) /\ deck # <<>>) =>
                 /\ deck' = SubSeq(deck, 1, Len(deck) - 1)
                 /\ bots' = [bots EXCEPT ![i].hand = Append(@, deck[Len(deck)])]
                 /\ UNCHANGED <<max_steps, current_step, target_score, pc,
                                winner, reason, concluded, start>>
         ]_vars
    /\ [](\A i \in Positions :
             Len(bots[i].hand) <=
                 Len(start[i].hand) + current_step
                     + (IF pc = "round" /\ idx > i THEN 1 ELSE 0))

\* A bot that came with two cards has just drawn in every round so far: its
\* hand is the two cards followed by the cards drawn.
C20_Witness ==
    /\ pc = "round"
    /\ log.msg = "draws"
    /\ idx = log.bot + 1
    /\ current_step = 1
    /\ Len(start[log.bot].hand) = 2
    /\ Len(bots[log.bot].hand) = 4
    /\ SubSeq(bots[log.bot].hand, 1, 2) = start[log.bot].hand
    /\ \A k \in 1..Len(deck) : deck[k] # bots[log.bot].hand[4]

\* The bot at position i is active, below the target and decide() answers hit
Hitting(i) == TurnOf(i) /\ round_decide(bots[i])

\* C21: when a bot decides to hit and the deck is empty, the round ends
\* there: neither that bot nor any other changes, the loop is left and no
\* later bot has a turn in that round; the step that follows still advances
\* the step counter and makes the termination checks (one active bot left,
\* or an active bot at the target, concludes the game, anything else does
\* not).
C21_EmptyDeckEndsRound ==
    /\ [][\A i \in Positions :
             (Hitting(i) /\ deck = <<>>) =>
                 /\ bots' = bots
                 /\ deck' = <<>>
                 /\ pc' = "round"
                 /\ idx' > Len(bots)
                 /\ log' = [msg |-> "deck is empty", bot |-> i]
                 /\ UNCHANGED <<current_step, winner, reason, concluded>>
         ]_vars
    /\ [][(AfterRound /\ log.msg = "deck is empty") =>
             /\ current_step' = current_step + 1
             /\ pc' \in {"loop", "done"}
             /\ pc' = "done" <=>
                    \/ Cardinality(active_bots(bots)) = 1
                    \/ \E j \in active_bots(bots) : score_of(bots[j]) = target_score
             /\ pc' = "done" => concluded' = concluded + 1
         ]_vars

\* The deck ran out under the first bot in the second round while the
\* second bot, active, below the target and ready to hit, had its turn of
\* that round still to come.
C21_Witness ==
    /\ pc = "round"
    /\ log = [msg |-> "deck is empty", bot |-> 1]
    /\ idx > Len(bots)
    /\ Len(bots) = 2
    /\ current_step = 1
    /\ bots[2].is_active
    /\ score_of(bots[2]) < target_score
    /\ round_decide(bots[2])

---------------------------------------------------------------------------
(* Properties of the order of the turns *)

\* The bot has a longer hand than it had when play() was called
Drew(i) == Len(bots[i].hand) > Len(start[i].hand)

\* The bot as it was when play() was called was going to hit in its turn
WantedCard(i) ==
    /\ start[i].is_active
    /\ calculate_score(start[i].hand, target_score) < target_score
    /\ round_decide(start[i])

\* C23: within a round the bots have their turns in the order of the list,
\* each turn touching only the bot whose turn it is; a card leaves the deck
\* only in the turn of a hitting bot, and it is the top card, which goes to
\* that bot; so in the first round no bot has drawn while a bot before it in
\* the list that was going to hit went without a card.
C23_TurnsInListOrder ==
    /\ [][(pc = "round" /\ pc' = "round") =>
             /\ idx <= Len(bots)
             /\ idx' > idx
             /\ (deck # <<>> => idx' = idx + 1)
             /\ \A j \in Positions \ {idx} : bots'[j] = bots[j]
         ]_vars
    /\ [][deck' # deck =>
             /\ pc = "round"
             /\ idx <= Len(bots)
             /\ Hitting(idx)
             /\ deck' = SubSeq(deck, 1, Len(deck) - 1)
             /\ bots'[idx].hand = Append(bots[idx].hand, deck[Len(deck)])
         ]_vars
    /\ [](current_step = 0 =>
             \A i, j \in Positions :
                 (i < j /\ Drew(j) /\ WantedCard(i)) => Drew(i))

\* Two bots were going to hit and the deck held one card: the first bot has
\* it, the second found the deck empty.
C23_Witness ==
    /\ pc = "round"
    /\ current_step = 0
    /\ Len(bots) = 2
    /\ WantedCard(1)
    /\ WantedCard(2)
    /\ Drew(1)
    /\ ~Drew(2)
    /\ deck = <<>>
    /\ log = [msg |-> "deck is empty", bot |-> 2]

---------------------------------------------------------------------------
(* Properties of the step counter *)

\* C24: current_step is 0 until play() is called, lies between 0 and
\* max_steps in every state, grows by exactly 1 at the end of every round
\* and changes at no other step; max_steps and target_score never change.
C24_StepCounter ==
    /\ [](/\ pc = "idle" => current_step = 0
          /\ 0 <= current_step
          /\ current_step <= max_steps)
    /\ [][/\ AfterRound => current_step' = current_step + 1
          /\ ~AfterRound => current_step' = current_step
          /\ max_steps' = max_steps
          /\ target_score' = target_score
         ]_vars

\* The last of MaxSteps rounds has been played without a conclusion: the
\* counter has reached max_steps and the loop test comes next.
C24_Witness ==
    /\ pc = "loop"
    /\ max_steps = MaxSteps
    /\ current_step = max_steps
    /\ concluded = 0

---------------------------------------------------------------------------
(* Properties of a Deck under draw() and shuffle() *)

CardsIn(cards) == {cards[i] : i \in 1..Len(cards)}

\* C25: whatever draw() and shuffle() calls are made, no card is in the deck
\* twice; shuffle() leaves the number and the set of the remaining cards as
\* they are; the size of the deck changes only in a draw(), and a draw()
\* from a deck with cards takes exactly one card from it.
C25_DeckUnderDrawAndShuffle ==
    /\ [](\A i, j \in 1..Len(deck) : deck[i] = deck[j] => i = j)
    /\ [][ucall'.op = "shuffle" =>
             /\ Len(deck') = Len(deck)
             /\ CardsIn(deck') = CardsIn(deck)
         ]_vars
    /\ [][Len(deck') # Len(deck) => ucall'.op = "draw"]_vars
    /\ [][(ucall'.op = "draw" /\ deck # <<>>) =>
             /\ Len(deck') = Len(deck) - 1
             /\ CardsIn(deck') = CardsIn(deck) \ {ucall'.card}
             /\ ucall'.card \in CardsIn(deck)
         ]_vars

\* The last three cards have been shuffled into another order than the deck
\* was constructed with, after 49 draws.
C25_Witness ==
    /\ ucall.op = "shuffle"
    /\ Len(deck) = 3
    /\ Len(uhand) = 49
    /\ deck[1].rank > deck[3].rank

---------------------------------------------------------------------------
(* Properties of the balances *)

\* C26: with bets placed through Bot(...) and place_bet, every bot of a game
\* has 0 <= current_bet <= balance in every state, before, during and after
\* play(); so no balance is ever negative.
C26_BetWithinBalance ==
    \A i \in Positions :
        /\ 0 <= bots[i].current_bet
        /\ bots[i].current_bet <= bots[i].balance
        /\ 0 <= bots[i].balance

\* A bot that had bet its whole balance lost the game: its balance is 0.
C26_Witness ==
    /\ pc = "done"
    /\ winner # NoBot
    /\ \E i \in Positions \ {winner} :
           /\ start[i].current_bet = start[i].balance
           /\ start[i].balance = InitialBalance
           /\ bots[i].balance = 0
           /\ bots[i].current_bet = 0

---------------------------------------------------------------------------
(* Properties of the winner *)

\* C27: when the game has concluded with a winner, by whichever of the
\* three ways, the winner's score is at most the target.
C27_WinnerNotBust ==
    (pc = "done" /\ winner # NoBot) => score_of(bots[winner]) <= target_score

---------------------------------------------------------------------------
(* Properties of the cards of a game *)

RECURSIVE HandsOf(_, _)
\* The hands of the bots from position i on, one after the other
HandsOf(bs, i) == IF i > Len(bs) THEN <<>> ELSE bs[i].hand \o HandsOf(bs, i + 1)

\* All cards of the game: the deck, then the hands
CardsOfGame == deck \o HandsOf(bots, 1)

\* C28: no step of a game changes which cards the deck and the hands hold
\* together, nor how many; in a game whose bots came with empty hands no
\* card is in two places, and when that game began with the full deck the
\* deck and the hands hold exactly the 52 cards, so their sizes add up to 52.
C28_CardConservation ==
    /\ [][/\ Len(CardsOfGame') = Len(CardsOfGame)
          /\ CardsIn(CardsOfGame') = CardsIn(CardsOfGame)
         ]_vars
    /\ []((\A i \in Positions : start[i].hand = <<>>) =>
             LET all == CardsOfGame
             IN  /\ Cardinality(CardsIn(all)) = Len(all)
                 /\ Len(all) = 52 => CardsIn(all) = AllCards)
    /\ []((pc = "idle" /\ Len(deck) = 52 /\ \A i \in Positions : bots[i].hand = <<>>) =>
             CardsIn(CardsOfGame) = AllCards)

\* A game of two bots that came with empty hands and a full deck has ended
\* with four cards in the hands and 48 in the deck.
C28_Witness ==
    /\ pc = "done"
    /\ Len(bots) = 2
    /\ \A i \in Positions : start[i].hand = <<>> /\ Len(bots[i].hand) = 2
    /\ Len(deck) = 48
    /\ CardsIn(CardsOfGame) = AllCards

---------------------------------------------------------------------------
(* Properties of the balances of a game as a whole *)

RECURSIVE SumBalances(_, _)
SumBalances(bs, i) ==
    IF i > Len(bs) THEN 0 ELSE bs[i].balance + SumBalances(bs, i + 1)

\* C29: the balances of the bots of a game add up to the same sum in every
\* state, in particular when play() has returned, with a winner by any of
\* the three ways or without one, as when play() was called.
C29_ZeroSum ==
    SumBalances(bots, 1) = SumBalances(start, 1)

\* The heuristic named a winner among two bots: the winner's balance has
\* grown by what the other's has shrunk.
C29_Witness ==
    /\ pc = "done"
    /\ reason = "none"
    /\ winner # NoBot
    /\ Len(bots) = 2
    /\ bots[winner].balance > start[winner].balance
    /\ \E i \in Positions \ {winner} :
           start[i].balance - bots[i].balance = bots[winner].balance - start[winner].balance

---------------------------------------------------------------------------
(* Properties of inactive bots *)

\* C30: a bot that is inactive stays inactive and keeps its hand at every
\* step of play(); its turn in a round passes without a draw and without a
\* line in the log.
C30_InactiveStaysOut ==
    /\ [][\A i \in Positions :
             ~bots[i].is_active => (~bots'[i].is_active /\ bots'[i].hand = bots[i].hand)
         ]_vars
    /\ [][\A i \in Positions :
             (pc = "round" /\ idx = i /\ ~bots[i].is_active) =>
                 /\ bots' = bots
                 /\ deck' = deck
                 /\ log' = log
                 /\ idx' = i + 1
         ]_vars

\* In the second round both bots, out since the first, have been passed
\* over: the round's heading is still the last line logged.
C30_Witness ==
    /\ pc = "round"
    /\ current_step = 1
    /\ Len(bots) = 2
    /\ idx > Len(bots)
    /\ log.msg = "round"
    /\ \A i \in Positions : ~bots[i].is_active /\ bots[i].hand = start[i].hand

---------------------------------------------------------------------------
(* Properties of the inactivation branch *)

\* C31: in a game whose bots came active and with empty hands (the target
\* being positive), a bot is taken out only with a score above the target:
\* no active bot begins its turn with its score equal to the target, and
\* the line of a bot taken out at the target ("stay") is never logged.
C31_TakenOutOnlyBust ==
    /\ [][(\A k \in Positions : start[k].is_active /\ start[k].hand = <<>>) =>
             \A i \in Positions :
                 (bots[i].is_active /\ ~bots'[i].is_active) =>
                     score_of(bots[i]) > target_score
         ]_vars
    /\ []((/\ target_score > 0
           /\ \A k \in Positions : start[k].is_active /\ start[k].hand = <<>>) =>
             /\ log.msg # "stays (stay)"
             /\ (pc = "round" /\ idx <= Len(bots) /\ bots[idx].is_active) =>
                    score_of(bots[idx]) # target_score)

\* In a game of two bots that came with empty hands a bot has just been
\* taken out, in the third round, with a score above the target.
C31_Witness ==
    /\ pc = "round"
    /\ Len(bots) = 2
    /\ \A k \in Positions : start[k].is_active /\ start[k].hand = <<>>
    /\ log.msg = "stays (bust)"
    /\ ~bots[log.bot].is_active
    /\ score_of(bots[log.bot]) > target_score

\* In a game of two bots that came with empty hands an active bot reached
\* exactly the target, and the game was concluded for it after that round.
C31_TargetWitness ==
    /\ pc = "done"
    /\ Len(bots) = 2
    /\ \A k \in Positions : start[k].hand = <<>>
    /\ reason = "reached target"
    /\ bots[winner].is_active
    /\ score_of(bots[winner]) = target_score

---------------------------------------------------------------------------
(* Properties of play() called again *)

\* C32: once play() has returned, no step of a further play() call changes
\* a bot (hand, is_active, balance, current_bet), the deck or current_step.
C32_ConcludedAbsorbing ==
    [][concluded >= 1 =>
          /\ bots' = bots
          /\ deck' = deck
          /\ current_step' = current_step
      ]_vars

====
